---- MODULE Spec2Model ----
(***************************************************************************)
(* Branch-out automation (GitHub + Fabric): the sequential provisioning    *)
(* flow of scripts/BranchOut-Feature-Workspace-Automation-GitHub.py.       *)
(*                                                                         *)
(* Every HTTP request the script issues is one action; the answer of the   *)
(* remote provider is chosen by the action among the answers the provider  *)
(* can give in its current state.  The provider state (workspaces,         *)
(* branches, connections) persists from one invocation to the next.        *)
(* `entry' names the function a behaviour invokes (main, or one of the     *)
(* helpers called on its own), `calls' counts its invocations.             *)
(***************************************************************************)
EXTENDS Integers, Sequences, FiniteSets, TLC

\* ------------------------------------------------------------------ bounds
MaxCalls == 2          \* invocations of the entry point in one behaviour
MaxPolls == 3          \* status fetches of one polling loop
MaxInitConns == 1      \* connections the provider holds initially
MaxFolderLen == 4      \* characters of a git folder argument

\* ------------------------------------------------------- values and helpers
ERR == 0               \* no HTTP answer: the request raised a transport failure
NotIssued == -1        \* resp[k] before request k is issued in this invocation

None == "None"         \* Python's None
Falsy(x) == x \in {"", None}          \* `not x' for a str-or-None value

ConnName == "GitHub PAT - owner/repo" \* connection_display_name
OtherName == "other"

RequestKinds ==
    {"acquire_token", "create_workspace", "add_admin", "branch_lookup",
     "base_lookup", "create_ref", "list_connections", "create_connection",
     "git_connect", "initialize_connection", "update_from_git", "status_poll"}

ProvisioningKinds == RequestKinds \ {"acquire_token"}

\* exception classes: requests.exceptions.RequestException and its subclasses
RequestExceptions == {"ConnectionError", "HTTPError", "MissingSchema"}
\* the exceptions that are a failure of the transport itself
TransportExceptions == {"ConnectionError"}

NoExc == [type |-> "none", msg |-> ""]
Exc(t, m) == [type |-> t, msg |-> m]

\* outcome of a function body: it returns val or raises exc
Return(v) == [kind |-> "return", val |-> v, exc |-> NoExc]
Raise(t, m) == [kind |-> "raise", val |-> None, exc |-> Exc(t, m)]

\* `except requests.exceptions.RequestException' around a body that raised e
ExceptRequestException(e, handled, passed) ==
    IF e.type \in RequestExceptions THEN handled ELSE passed

\* response.raise_for_status(): raises HTTPError for 4xx and 5xx only
RaiseForStatus(status) == status >= 400 /\ status < 600

\* what a request raises in the caller: a transport failure, or nothing
SendRaises(status) == IF status = ERR THEN Exc("ConnectionError", "transport") ELSE NoExc

\* a folder argument is the sequence of its characters
FolderChars == {"a", "b", "/", "\\"}
RECURSIVE Strings(_)
Strings(n) ==
    IF n = 0 THEN {<<>>}
    ELSE LET shorter == Strings(n - 1)
         IN shorter \cup {Append(x, c) : x \in {y \in shorter : Len(y) = n - 1},
                                          c \in FolderChars}
Folders == Strings(MaxFolderLen)
Unset == <<"unset">>   \* directory_name before it is assigned

\* str.rstrip(c): the string without its trailing run of c
RECURSIVE RStrip(_, _)
RStrip(x, c) ==
    IF x # <<>> /\ x[Len(x)] = c THEN RStrip(SubSeq(x, 1, Len(x) - 1), c) ELSE x

\* connect_branch_to_workspace's directory_name without the test for the
\* root markers
directory_name_of_NoRoot(git_folder) == RStrip(git_folder, "/")

\* git_folder.rstrip("/") if git_folder and git_folder not in ("/", "\\") else ""
directory_name_of(git_folder) ==
    IF git_folder # <<>> /\ git_folder \notin {<<"/">>, <<"\\">>}
    THEN RStrip(git_folder, "/")
    ELSE <<>>

VARIABLES
    entry,          \* the function the behaviour invokes
    calls,          \* invocations started so far
    pc,             \* position in the current invocation
    exc,            \* exception that ended the invocation (NoExc if none)
    ret,            \* value the invoked function returned
    prev,           \* how the previous invocation ended
    reqs,           \* requests issued in this invocation, by kind
    resp,           \* last answer to each kind of request in this invocation
    GH_PAT_TOKEN,   \* global GH_PAT_TOKEN
    FABRIC_TOKEN,   \* global FABRIC_TOKEN
    token,          \* main's token
    workspace_id,   \* main's workspace_id
    base_sha,       \* create_github_branch's base_sha
    data,           \* list_connections' data: the shape of the parsed body
    connections,    \* get_or_create_github_pat_connection's connections
    connection_id,  \* connect_branch_to_workspace's connection_id (None if unset)
    location_url,   \* initialize_workspace_from_git's location_url
    polled,         \* answers the status endpoint has given, in order
    operation_state,\* long_running_operation_polling's operation_state['status']
    keep_polling,   \* long_running_operation_polling's keep_polling
    sleeps,         \* time.sleep(retry_after) calls of the poller
    logged,         \* log lines of interest written in this invocation
    wsCount,        \* provider: workspaces named WORKSPACE_NAME
    wsAdmin,        \* provider: DEVELOPER is admin of the workspace
    wsGit,          \* provider: workspace git state
    mainSha,        \* provider: head commit of GH_MAIN_BRANCH ("" if absent)
    newSha,         \* provider: head commit of GH_NEW_BRANCH ("" if absent)
    refsCreated,    \* provider: references created for GH_NEW_BRANCH
    provConns,      \* provider: stored connections, in list order
    GH_GIT_FOLDER,  \* global GH_GIT_FOLDER, as its sequence of characters
    directory_name  \* connect_branch_to_workspace's directory_name

ctl == <<entry, calls, pc, exc, ret, prev, reqs, resp, logged>>
cfg == <<GH_PAT_TOKEN, FABRIC_TOKEN>>
locals == <<token, workspace_id, base_sha, data, connections, connection_id, location_url>>
poller == <<polled, operation_state, keep_polling, sleeps>>
fabric == <<wsCount, wsAdmin, wsGit, provConns>>
github == <<mainSha, newSha, refsCreated>>
folder == <<GH_GIT_FOLDER, directory_name>>
vars == <<ctl, cfg, locals, poller, fabric, github, folder>>

\* ------------------------------------------------------------- invocation
Entries == {"main", "create_github_branch", "get_or_create_github_pat_connection",
            "long_running_operation_polling"}

ZeroReqs == [k \in RequestKinds |-> 0]
NoResp == [k \in RequestKinds |-> NotIssued]
NoPrev == [pc |-> "idle", ret |-> None, exc |-> NoExc, listed |-> FALSE]

\* list_connections got the provider's list: status 200 and a body of either
\* accepted shape
Listed(r, d) == r["list_connections"] = 200 /\ d \in {"list", "value"}

\* request k is issued and answered with status
Issue(k, status) ==
    /\ reqs' = [reqs EXCEPT ![k] = @ + 1]
    /\ resp' = [resp EXCEPT ![k] = status]

Log(line) == logged' = logged \cup {line}

\* the invoked function ends with outcome o
Done(o) ==
    /\ pc' = IF o.kind = "raise" THEN "raised" ELSE "done"
    /\ exc' = o.exc
    /\ ret' = o.val
    /\ UNCHANGED prev

\* the invocation goes on at label l
Goto(l) ==
    /\ pc' = l
    /\ UNCHANGED <<exc, ret, prev>>

\* a helper called by main returns to main at label l; called on its own it ends
ReturnTo(l, o) ==
    IF o.kind = "raise" \/ entry # "main" THEN Done(o) ELSE Goto(l)

\* connections the provider can hold initially: the id of an entry is its
\* position, or the entry is listed without id
ConnEntries(i) ==
    {[displayName |-> n, id |-> d] : n \in {ConnName, OtherName}, d \in {None, ToString(i)}}
RECURSIVE ConnLists(_)
ConnLists(n) ==
    IF n = 0 THEN {<<>>}
    ELSE LET shorter == ConnLists(n - 1)
         IN shorter \cup {Append(l, e) : l \in {x \in shorter : Len(x) = n - 1},
                                          e \in ConnEntries(n)}

Init ==
    /\ entry \in Entries
    /\ calls = 0
    /\ pc = "idle"
    /\ exc = NoExc
    /\ ret = None
    /\ prev = NoPrev
    /\ reqs = ZeroReqs
    /\ resp = NoResp
    /\ logged = {}
    /\ GH_PAT_TOKEN \in {"", "pat"}
    /\ FABRIC_TOKEN \in IF entry = "main" THEN {"", "tok"} ELSE {"tok"}
    /\ token = ""
    /\ workspace_id = None
    /\ base_sha = None
    /\ data = None
    /\ connections = <<>>
    /\ connection_id = None
    /\ location_url = None
    /\ polled = <<>>
    /\ operation_state = None
    /\ keep_polling = TRUE
    /\ sleeps = 0
    /\ wsCount \in IF entry = "main" THEN {0, 1} ELSE {0}
    /\ wsAdmin = FALSE
    /\ wsGit = "none"
    /\ mainSha \in IF entry \in {"main", "create_github_branch"} THEN {"", "sha1"} ELSE {"sha1"}
    /\ newSha \in IF entry \in {"main", "create_github_branch"} THEN {"", "sha0"} ELSE {""}
    /\ refsCreated = 0
    /\ provConns \in IF entry \in {"main", "get_or_create_github_pat_connection"}
                     THEN ConnLists(MaxInitConns) ELSE {<<>>}
    /\ GH_GIT_FOLDER = <<"a", "/", "b", "/">>
    /\ directory_name = Unset

EntryPc == entry

\* the entry point is invoked (again): per-invocation state starts afresh, the
\* provider keeps its state
Call ==
    /\ pc \in {"idle", "done", "raised"}
    /\ calls < MaxCalls
    /\ calls' = calls + 1
    /\ pc' = EntryPc
    /\ exc' = NoExc
    /\ ret' = None
    /\ reqs' = ZeroReqs
    /\ resp' = NoResp
    /\ logged' = {}
    /\ token' = IF entry = "main" THEN "" ELSE FABRIC_TOKEN
    /\ workspace_id' = None
    /\ base_sha' = None
    /\ data' = None
    /\ connections' = <<>>
    /\ connection_id' = None
    /\ location_url' = None
    /\ polled' = <<>>
    /\ operation_state' = None
    /\ keep_polling' = TRUE
    /\ sleeps' = 0
    /\ prev' = [pc |-> pc, ret |-> ret, exc |-> exc, listed |-> Listed(resp, data)]
    /\ directory_name' = Unset
    /\ UNCHANGED <<entry, cfg, fabric, github, GH_GIT_FOLDER>>

\* ------------------------------------------------------------------- main
\* main: `if not GH_PAT_TOKEN: raise ValueError'
MainPatCheck(pat) ==
    IF Falsy(pat) THEN Raise("ValueError", "GitHub PAT token was not provided")
    ELSE Return(None)

CheckPat ==
    /\ pc = "main"
    /\ LET o == MainPatCheck(GH_PAT_TOKEN)
       IN IF o.kind = "raise" THEN Done(o) ELSE Goto("auth")
    /\ UNCHANGED <<folder, entry, calls, reqs, resp, logged, cfg, locals, poller, fabric, github>>

\* acquire_token_user_id_password: the token of the result, or None
acquire_token_user_id_password(hasAccessToken, accessToken) ==
    IF hasAccessToken THEN accessToken ELSE None

\* MainTokenCheck without the check of the token
MainTokenCheck_Unchecked(tok) == Return(tok)

\* main: `if not token: raise ValueError'
MainTokenCheck(tok) ==
    IF Falsy(tok) THEN Raise("ValueError", "Could not generate authentication token")
    ELSE Return(tok)

Authenticate ==
    /\ pc = "auth"
    /\ \/ /\ ~Falsy(FABRIC_TOKEN)
          /\ token' = FABRIC_TOKEN
          /\ UNCHANGED <<reqs, resp>>
       \/ /\ Falsy(FABRIC_TOKEN)
          /\ \E has \in BOOLEAN, at \in {"tok", ""} :
                /\ token' = acquire_token_user_id_password(has, at)
                /\ Issue("acquire_token", IF has THEN 200 ELSE 400)
    /\ LET o == MainTokenCheck(token')
       IN IF o.kind = "raise" THEN Done(o) ELSE Goto("create_workspace")
    /\ UNCHANGED <<folder, entry, calls, logged, cfg, workspace_id, base_sha, data, connections,
                   connection_id, location_url, poller, fabric, github>>

\* answers of POST /workspaces: the provider rejects a name it already holds
WorkspaceAnswers(held) ==
    IF held = 0
    THEN {[status |-> 201, id |-> "ws1", created |-> 1],
          [status |-> 201, id |-> None, created |-> 1],
          [status |-> 500, id |-> None, created |-> 0],
          [status |-> ERR, id |-> None, created |-> 0]}
    ELSE {[status |-> 409, id |-> None, created |-> 0],
          [status |-> 500, id |-> None, created |-> 0],
          [status |-> ERR, id |-> None, created |-> 0]}

\* create_fabric_workspace treating the conflict as any other failure
create_fabric_workspace_ConflictAsNone(status, id) ==
    IF status = 201 THEN Return(id) ELSE Return(None)

create_fabric_workspace(status, id) ==
    LET body == IF SendRaises(status) # NoExc THEN [kind |-> "raise", val |-> None, exc |-> SendRaises(status)]
                ELSE IF status = 409
                     THEN Raise("ValueError", "Fabric workspace already exists")
                ELSE IF status = 201 THEN Return(id)
                ELSE Return(None)
    IN IF body.kind = "raise"
       THEN ExceptRequestException(body.exc, Return(None), body)
       ELSE body

\* main going on without a workspace id
MainWorkspaceCheck_Unchecked(wid) == Return(wid)

\* main: `if not workspace_id: raise ValueError'
MainWorkspaceCheck(wid) ==
    IF Falsy(wid) THEN Raise("ValueError", "Could not create Fabric workspace")
    ELSE Return(wid)

CreateWorkspace ==
    /\ pc = "create_workspace"
    /\ \E a \in WorkspaceAnswers(wsCount) :
          /\ Issue("create_workspace", a.status)
          /\ wsCount' = wsCount + a.created
          /\ LET o == create_fabric_workspace(a.status, a.id)
                 m == IF o.kind = "raise" THEN o ELSE MainWorkspaceCheck(o.val)
             IN /\ workspace_id' = IF o.kind = "raise" THEN workspace_id ELSE o.val
                /\ IF m.kind = "raise" THEN Done(m) ELSE Goto("add_admin")
    /\ UNCHANGED <<folder, entry, calls, logged, cfg, token, base_sha, data, connections,
                   connection_id, location_url, poller, wsAdmin, wsGit, provConns, github>>

AdminAnswers == {200, 401, 500, ERR}

\* add_workspace_admins without the except clause
add_workspace_admins_Propagates(status) ==
    IF status = ERR THEN Raise("ConnectionError", "transport")
    ELSE IF RaiseForStatus(status) THEN Raise("HTTPError", "add admin")
    ELSE Return(None)

add_workspace_admins(status) ==
    LET e == IF SendRaises(status) # NoExc THEN SendRaises(status)
             ELSE IF RaiseForStatus(status) THEN Exc("HTTPError", "add admin")
             ELSE NoExc
    IN IF e = NoExc THEN Return(None)
       ELSE ExceptRequestException(e, Return(None), [kind |-> "raise", val |-> None, exc |-> e])

\* main asking again for the admin role until it is granted
AddAdmin_Retries ==
    /\ pc = "add_admin"
    /\ \E status \in AdminAnswers :
          /\ Issue("add_admin", status)
          /\ wsAdmin' = (wsAdmin \/ status = 200)
          /\ LET o == add_workspace_admins(status)
             IN IF o.kind = "raise" THEN Done(o)
                ELSE IF status = 200 THEN Goto("create_github_branch")
                ELSE Goto("add_admin")
    /\ UNCHANGED <<folder, entry, calls, logged, cfg, locals, poller, wsCount, wsGit, provConns, github>>

AddAdmin ==
    /\ pc = "add_admin"
    /\ \E status \in AdminAnswers :
          /\ Issue("add_admin", status)
          /\ wsAdmin' = (wsAdmin \/ status = 200)
          /\ LET o == add_workspace_admins(status)
             IN IF o.kind = "raise" THEN Done(o) ELSE Goto("create_github_branch")
    /\ UNCHANGED <<folder, entry, calls, logged, cfg, locals, poller, wsCount, wsGit, provConns, github>>


\* --------------------------------------------------- create_github_branch
\* create_github_branch: `if not token: raise ValueError'
BranchTokenCheck(pat) ==
    IF Falsy(pat) THEN Raise("ValueError", "GitHub PAT token is required to create branches")
    ELSE Return(None)

CheckBranchToken ==
    /\ pc = "create_github_branch"
    /\ LET o == BranchTokenCheck(GH_PAT_TOKEN)
       IN IF o.kind = "raise" THEN Done(o) ELSE Goto("branch_lookup")
    /\ UNCHANGED <<folder, entry, calls, reqs, resp, logged, cfg, locals, poller, fabric, github>>

\* answers of GET /git/ref/heads/<branch> for a branch whose head is sha
RefAnswers(sha) == (IF sha = "" THEN {404} ELSE {200}) \cup {500, ERR}

\* branch_exists taking a transport failure for an existing branch
branch_exists_ErrorMeansExists(status) == status \in {200, ERR}

\* branch_exists comparing with the status of a created resource
branch_exists_Created(status) == status = 201

\* branch_exists: True exactly on status 200, False on a transport failure
branch_exists(status) ==
    IF SendRaises(status) # NoExc
    THEN ExceptRequestException(SendRaises(status), FALSE, FALSE)
    ELSE status = 200

BranchLookup ==
    /\ pc = "branch_lookup"
    /\ \E status \in RefAnswers(newSha) :
          /\ Issue("branch_lookup", status)
          /\ IF branch_exists(status)
             THEN /\ Log("already exists, skipping creation")
                  /\ ReturnTo("connect_branch_to_workspace", Return(None))
             ELSE /\ UNCHANGED logged
                  /\ Goto("base_lookup")
    /\ UNCHANGED <<folder, entry, calls, cfg, locals, poller, fabric, github>>

\* get_github_branch_sha letting a transport failure through
get_github_branch_sha_Propagates(status, sha) ==
    IF status = ERR THEN Raise("ConnectionError", "transport")
    ELSE IF RaiseForStatus(status) THEN Return(None)
    ELSE Return(sha)

\* get_github_branch_sha: the sha of the answer, None on any failure
get_github_branch_sha(status, sha) ==
    LET e == IF SendRaises(status) # NoExc THEN SendRaises(status)
             ELSE IF RaiseForStatus(status) THEN Exc("HTTPError", "ref lookup")
             ELSE NoExc
    IN IF e = NoExc THEN Return(sha)
       ELSE ExceptRequestException(e, Return(None), [kind |-> "raise", val |-> None, exc |-> e])

\* create_github_branch going on without a base commit
BaseShaCheck_Unchecked(sha) == Return(sha)

\* create_github_branch: `if not base_sha: raise ValueError'
BaseShaCheck(sha) ==
    IF Falsy(sha) THEN Raise("ValueError", "Could not find base branch")
    ELSE Return(sha)

BaseLookup ==
    /\ pc = "base_lookup"
    /\ \E status \in RefAnswers(mainSha) :
          /\ Issue("base_lookup", status)
          /\ LET o == get_github_branch_sha(status, mainSha)
                 m == IF o.kind = "raise" THEN o ELSE BaseShaCheck(o.val)
             IN /\ base_sha' = IF o.kind = "raise" THEN base_sha ELSE o.val
                /\ IF m.kind = "raise" THEN Done(m) ELSE Goto("create_ref")
    /\ UNCHANGED <<folder, entry, calls, logged, cfg, token, workspace_id, data, connections,
                   connection_id, location_url, poller, fabric, github>>

\* answers of POST /git/refs: a reference is created once
CreateRefAnswers(sha) == (IF sha = "" THEN {201} ELSE {422}) \cup {500, ERR}

\* `except RequestException as e: log; raise': the exception goes on unchanged
LogAndReraise(e) == [kind |-> "raise", val |-> None, exc |-> e]

\* create_github_branch logging a failed creation and returning
create_reference_Swallows(status) == Return(None)

\* create_github_branch, from the create-reference request on
create_reference(status) ==
    LET e == IF SendRaises(status) # NoExc THEN SendRaises(status)
             ELSE IF RaiseForStatus(status) THEN Exc("HTTPError", "create ref")
             ELSE NoExc
    IN IF e = NoExc THEN Return(None)
       ELSE ExceptRequestException(e, LogAndReraise(e), [kind |-> "raise", val |-> None, exc |-> e])

CreateRef ==
    /\ pc = "create_ref"
    /\ \E status \in CreateRefAnswers(newSha) :
          /\ Issue("create_ref", status)
          /\ newSha' = IF status = 201 THEN base_sha ELSE newSha
          /\ refsCreated' = IF status = 201 THEN refsCreated + 1 ELSE refsCreated
          /\ ReturnTo("connect_branch_to_workspace", create_reference(status))
    /\ UNCHANGED <<folder, entry, calls, logged, cfg, locals, poller, fabric, mainSha>>

\* ------------------------------------ get_or_create_github_pat_connection
\* ConnectionCheck with the test inverted
ConnectionCheck_Inverted(cid) ==
    IF ~Falsy(cid) THEN Raise("ValueError", "Could not obtain/create GitHub credentials connection")
    ELSE Return(cid)

\* connect_branch_to_workspace: `if not connection_id: raise ValueError'
ConnectionCheck(cid) ==
    IF Falsy(cid) THEN Raise("ValueError", "Could not obtain/create GitHub credentials connection")
    ELSE Return(cid)

\* get_or_create_github_pat_connection returns cid: to its caller
\* connect_branch_to_workspace in main, or to the harness
ResolverReturns(cid) ==
    /\ connection_id' = cid
    /\ IF entry = "main"
       THEN LET m == ConnectionCheck(cid)
            IN IF m.kind = "raise" THEN Done(m) ELSE Goto("git_connect")
       ELSE Done(Return(cid))

\* get_or_create_github_pat_connection: `if not pat_token: return None'
ResolverPatCheck(pat) == IF Falsy(pat) THEN Return(None) ELSE Return(pat)

CheckResolverPat ==
    /\ pc = "get_or_create_github_pat_connection"
    /\ IF ResolverPatCheck(GH_PAT_TOKEN).val = None
       THEN ResolverReturns(None)
       ELSE /\ Goto("list_connections")
            /\ UNCHANGED connection_id
    /\ UNCHANGED <<folder, entry, calls, reqs, resp, logged, cfg, token, workspace_id, base_sha,
                   data, connections, location_url, poller, fabric, github>>

\* JSON bodies of GET /connections: a bare list, a dict with the list under
\* "value", a dict without "value", or another JSON value
BodyShapes == {"list", "value", "dict", "scalar"}
ListAnswers == {[status |-> 200, shape |-> sh] : sh \in BodyShapes}
                 \cup {[status |-> 500, shape |-> "dict"], [status |-> ERR, shape |-> "scalar"]}

\* list_connections accepting the wrapped list only
list_connections_WrappedOnly(status, shape, items) ==
    IF status = 200 /\ shape = "value" THEN items ELSE <<>>

\* list_connections accepting the bare list only
list_connections_BareOnly(status, shape, items) ==
    IF status = 200 /\ shape = "list" THEN items ELSE <<>>

list_connections(status, shape, items) ==
    LET e == IF SendRaises(status) # NoExc THEN SendRaises(status)
             ELSE IF RaiseForStatus(status) THEN Exc("HTTPError", "list connections")
             ELSE NoExc
    IN IF e # NoExc THEN ExceptRequestException(e, <<>>, <<>>)
       ELSE IF shape = "value" THEN items
       ELSE IF shape = "list" THEN items
       ELSE <<>>

\* the loop keeping the last entry with the display name and an id
FindConnection_Last(conns, name) ==
    LET S == {i \in 1..Len(conns) : conns[i].displayName = name /\ ~Falsy(conns[i].id)}
    IN IF S = {} THEN None ELSE conns[CHOOSE i \in S : \A j \in S : j <= i].id

\* the for loop of get_or_create_github_pat_connection: the id of the first
\* entry with the display name and a non-empty id, None if there is none
RECURSIVE FindConnection(_, _)
FindConnection(conns, name) ==
    IF conns = <<>> THEN None
    ELSE IF Head(conns).displayName = name /\ ~Falsy(Head(conns).id) THEN Head(conns).id
    ELSE FindConnection(Tail(conns), name)

ListConnections ==
    /\ pc = "list_connections"
    /\ \E a \in ListAnswers :
          /\ Issue("list_connections", a.status)
          /\ data' = IF a.status = 200 THEN a.shape ELSE None
          /\ connections' = list_connections(a.status, a.shape, provConns)
          /\ LET cid == FindConnection(connections', ConnName)
             IN IF cid # None
                THEN ResolverReturns(cid)
                ELSE /\ Goto("create_connection")
                     /\ UNCHANGED connection_id
    /\ UNCHANGED <<folder, entry, calls, logged, cfg, token, workspace_id, base_sha,
                   location_url, poller, fabric, github>>

HoldsName(conns, name) == \E i \in 1..Len(conns) : conns[i].displayName = name

\* answers of POST /connections: display names are unique by convention only,
\* the provider may accept or reject a second connection of the same name
ConnCreateAnswers(conns) ==
    {201, 500, ERR} \cup (IF HoldsName(conns, ConnName) THEN {409} ELSE {})

\* get_or_create_github_pat_connection, from the create request on
create_connection(status, id) ==
    IF SendRaises(status) # NoExc
    THEN ExceptRequestException(SendRaises(status), None, None)
    ELSE IF status = 201 THEN id
    ELSE None

CreateConnection ==
    /\ pc = "create_connection"
    /\ \E status \in ConnCreateAnswers(provConns) :
          LET id == ToString(Len(provConns) + 1)
          IN /\ Issue("create_connection", status)
             /\ provConns' = IF status = 201
                             THEN Append(provConns, [displayName |-> ConnName, id |-> id])
                             ELSE provConns
             /\ ResolverReturns(create_connection(status, id))
    /\ UNCHANGED <<folder, entry, calls, logged, cfg, token, workspace_id, base_sha,
                   data, connections, location_url, poller, wsCount, wsAdmin, wsGit, github>>

\* -------------------------------------------- connect_branch_to_workspace
\* connect_branch_to_workspace up to the call of the resolver
NormalizeFolder ==
    /\ pc = "connect_branch_to_workspace"
    /\ directory_name' = directory_name_of(GH_GIT_FOLDER)
    /\ Goto("get_or_create_github_pat_connection")
    /\ UNCHANGED <<GH_GIT_FOLDER, entry, calls, reqs, resp, logged, cfg, locals, poller,
                   fabric, github>>

ConnectAnswers == {200, 202, 409, 500, ERR}

\* connect_branch_to_workspace, from the connect request on: the outcome and
\* the lines it logs
connect_request(status) ==
    LET failed == SendRaises(status) = NoExc /\ status # 200
        e == IF SendRaises(status) # NoExc THEN SendRaises(status)
             ELSE IF failed /\ RaiseForStatus(status) THEN Exc("HTTPError", "git connect")
             ELSE NoExc
    IN [out |-> IF e = NoExc THEN Return(None)
                ELSE ExceptRequestException(e, LogAndReraise(e),
                                            [kind |-> "raise", val |-> None, exc |-> e]),
        log |-> (IF failed THEN {"Git connect failed"} ELSE {})
                \cup (IF e = NoExc THEN {"Workspace connected to GitHub branch"} ELSE {})]

GitConnect ==
    /\ pc = "git_connect"
    /\ \E status \in ConnectAnswers :
          /\ Issue("git_connect", status)
          /\ wsGit' = IF status = 200 THEN "connected" ELSE wsGit
          /\ logged' = logged \cup connect_request(status).log
          /\ LET o == connect_request(status).out
             IN IF o.kind = "raise" THEN Done(o) ELSE Goto("initialize_workspace_from_git")
    /\ UNCHANGED <<folder, entry, calls, cfg, locals, poller, wsCount, wsAdmin, provConns, github>>


\* ------------------------------------------ initialize_workspace_from_git
InitializeAnswers == {200, 202, 500, ERR}

\* initialize_workspace_from_git going on to the update when accepted
initialize_connection_AcceptedGoesOn(status) ==
    IF SendRaises(status) # NoExc
    THEN [next |-> "end",
          out |-> ExceptRequestException(SendRaises(status), Return(None),
                      [kind |-> "raise", val |-> None, exc |-> SendRaises(status)])]
    ELSE IF status \in {200, 202} THEN [next |-> "update", out |-> Return(None)]
    ELSE [next |-> "end", out |-> Return(None)]

\* initialize_workspace_from_git up to the update request: "update" when it
\* goes on to update-from-git, else the outcome it ends with
initialize_connection(status) ==
    IF SendRaises(status) # NoExc
    THEN [next |-> "end",
          out |-> ExceptRequestException(SendRaises(status), Return(None),
                      [kind |-> "raise", val |-> None, exc |-> SendRaises(status)])]
    ELSE IF status = 200 THEN [next |-> "update", out |-> Return(None)]
    ELSE [next |-> "end", out |-> Return(None)]

InitializeConnection ==
    /\ pc = "initialize_workspace_from_git"
    /\ \E status \in InitializeAnswers :
          /\ Issue("initialize_connection", status)
          /\ LET i == initialize_connection(status)
             IN IF i.next = "update" THEN Goto("update_from_git") ELSE Done(i.out)
    /\ UNCHANGED <<folder, entry, calls, logged, cfg, locals, poller, fabric, github>>

UpdateAnswers == {200, 202, 500, ERR}

\* update_from_git re-raising a transport failure
update_from_git_Reraises(status) ==
    IF status = ERR
    THEN [next |-> "end", out |-> Raise("ConnectionError", "transport")]
    ELSE IF status = 202 THEN [next |-> "poll", out |-> Return(None)]
    ELSE [next |-> "end", out |-> Return(None)]

\* initialize_workspace_from_git from the update request on: "poll" when it
\* goes on to long_running_operation_polling, else the outcome it ends with
update_from_git(status) ==
    IF SendRaises(status) # NoExc
    THEN [next |-> "end",
          out |-> ExceptRequestException(SendRaises(status), Return(None),
                      [kind |-> "raise", val |-> None, exc |-> SendRaises(status)])]
    ELSE IF status = 200 THEN [next |-> "end", out |-> Return(None)]
    ELSE IF status = 202 THEN [next |-> "poll", out |-> Return(None)]
    ELSE [next |-> "end", out |-> Return(None)]

UpdateFromGit ==
    /\ pc = "update_from_git"
    /\ \E status \in UpdateAnswers, loc \in {"url", None} :
          /\ Issue("update_from_git", status)
          /\ LET u == update_from_git(status)
             IN IF u.next = "poll"
                THEN /\ location_url' = loc
                     /\ Goto("long_running_operation_polling")
                ELSE /\ UNCHANGED location_url
                     /\ Done(u.out)
    /\ UNCHANGED <<folder, entry, calls, logged, cfg, token, workspace_id, base_sha, data, connections,
                   connection_id, poller, fabric, github>>

\* ----------------------------------------- long_running_operation_polling
InProgress == {"NotStarted", "Running"}
Statuses == InProgress \cup {"Succeeded", "Failed", "Undefined"}
\* what a status fetch gives: a status, a transport failure, or a payload
\* that is not a JSON object with a "status"
PollAnswers == Statuses \cup {"ERR", "Malformed"}

\* `except Exception': every exception of the body is handled
ExceptException(e, handled) == handled

\* PollStep that keeps polling on every status but the two it knows as final
PollStep_UnknownContinues(a) ==
    IF a \in {"ERR", "Malformed"}
    THEN [again |-> FALSE, status |-> None, sleep |-> 0, out |-> Return(None),
          log |-> {"failed with error"}]
    ELSE IF a \notin {"Succeeded", "Failed"}
    THEN [again |-> TRUE, status |-> a, sleep |-> 1, out |-> Return(None), log |-> {}]
    ELSE IF a = "Failed"
    THEN [again |-> FALSE, status |-> a, sleep |-> 0, out |-> Return(None),
          log |-> {"operation failed. Error response"}]
    ELSE [again |-> FALSE, status |-> a, sleep |-> 0, out |-> Return(a),
          log |-> {"successfully completed"}]

\* PollStep that keeps polling on "Running" only
PollStep_RunningOnly(a) ==
    IF a \in {"ERR", "Malformed"}
    THEN [again |-> FALSE, status |-> None, sleep |-> 0, out |-> Return(None),
          log |-> {"failed with error"}]
    ELSE IF a = "Running"
    THEN [again |-> TRUE, status |-> a, sleep |-> 1, out |-> Return(None), log |-> {}]
    ELSE IF a = "Failed"
    THEN [again |-> FALSE, status |-> a, sleep |-> 0, out |-> Return(None),
          log |-> {"operation failed. Error response"}]
    ELSE [again |-> FALSE, status |-> a, sleep |-> 0, out |-> Return(a),
          log |-> {"successfully completed"}]

\* one round of the while loop on answer a, and the code after the loop when
\* the loop ends
PollStep(a) ==
    IF a \in {"ERR", "Malformed"}
    THEN [again |-> FALSE, status |-> None, sleep |-> 0,
          out |-> ExceptException(a, Return(None)), log |-> {"failed with error"}]
    ELSE IF a \in InProgress
    THEN [again |-> TRUE, status |-> a, sleep |-> 1, out |-> Return(None), log |-> {}]
    ELSE IF a = "Failed"
    THEN [again |-> FALSE, status |-> a, sleep |-> 0, out |-> Return(None),
          log |-> {"operation failed. Error response"}]
    ELSE [again |-> FALSE, status |-> a, sleep |-> 0, out |-> Return(a),
          log |-> {"successfully completed"}]

\* the poller ends with outcome o: called by initialize_workspace_from_git,
\* which ignores the value and returns to main, which returns
PollerReturns(o) == Done(IF entry = "main" THEN Return(None) ELSE o)

StartPolling ==
    /\ pc = "long_running_operation_polling"
    /\ keep_polling' = TRUE
    /\ IF entry = "main" THEN UNCHANGED location_url ELSE location_url' \in {"url", None}
    /\ Goto("poll")
    /\ UNCHANGED <<folder, entry, calls, reqs, resp, logged, cfg, token, workspace_id, base_sha,
                   data, connections, connection_id, polled, operation_state, sleeps,
                   fabric, github>>

PollFetch ==
    /\ pc = "poll"
    /\ keep_polling
    /\ \/ /\ location_url = None        \* requests.get(None) raises MissingSchema
          /\ PollerReturns(ExceptException("MissingSchema", Return(None)))
          /\ Log("failed with error")
          /\ UNCHANGED <<reqs, resp, poller>>
       \/ /\ location_url # None
          /\ reqs["status_poll"] < MaxPolls
          /\ \E a \in PollAnswers :
                LET p == PollStep(a)
                IN /\ Issue("status_poll", IF a = "ERR" THEN ERR ELSE 200)
                   /\ polled' = Append(polled, a)
                   /\ operation_state' = IF p.status = None THEN operation_state ELSE p.status
                   /\ keep_polling' = p.again
                   /\ sleeps' = sleeps + p.sleep
                   /\ logged' = logged \cup p.log
                   /\ IF p.again THEN Goto("poll") ELSE PollerReturns(p.out)
    /\ UNCHANGED <<folder, entry, calls, cfg, locals, fabric, github>>

\* ------------------------------------------------------------------- spec
Next ==
    \/ Call
    \/ CheckPat
    \/ Authenticate
    \/ CreateWorkspace
    \/ AddAdmin
    \/ CheckBranchToken
    \/ BranchLookup
    \/ BaseLookup
    \/ CreateRef
    \/ NormalizeFolder
    \/ CheckResolverPat
    \/ ListConnections
    \/ CreateConnection
    \/ GitConnect
    \/ InitializeConnection
    \/ UpdateFromGit
    \/ StartPolling
    \/ PollFetch

Spec == Init /\ [][Next]_vars

\* the script runs its steps one after the other without waiting for anything
\* but the answer of a request: a step that can be taken is taken
FairSpec == Spec /\ WF_vars(Next)

\* connect_branch_to_workspace is called, in a run of main that found the
\* branch to exist, with any folder argument
InitFolder ==
    /\ entry = "main"
    /\ calls = 1
    /\ pc = "connect_branch_to_workspace"
    /\ exc = NoExc
    /\ ret = None
    /\ prev = NoPrev
    /\ reqs = [ZeroReqs EXCEPT !["create_workspace"] = 1, !["add_admin"] = 1,
                               !["branch_lookup"] = 1]
    /\ resp = [NoResp EXCEPT !["create_workspace"] = 201, !["add_admin"] = 200,
                             !["branch_lookup"] = 200]
    /\ logged = {"already exists, skipping creation"}
    /\ GH_PAT_TOKEN = "pat"
    /\ FABRIC_TOKEN = "tok"
    /\ token = "tok"
    /\ workspace_id = "ws1"
    /\ base_sha = None
    /\ data = None
    /\ connections = <<>>
    /\ connection_id = None
    /\ location_url = None
    /\ polled = <<>>
    /\ operation_state = None
    /\ keep_polling = TRUE
    /\ sleeps = 0
    /\ wsCount = 1
    /\ wsAdmin = TRUE
    /\ wsGit = "none"
    /\ mainSha = "sha1"
    /\ newSha = "sha0"
    /\ refsCreated = 0
    /\ provConns = <<>>
    /\ GH_GIT_FOLDER \in Folders
    /\ directory_name = Unset

SpecFolder == InitFolder /\ [][NormalizeFolder]_vars


\* ----------------------------------------------------------------- claims
NoRequests(kinds) == \A k \in kinds : reqs[k] = 0
InMain == entry = "main" /\ calls >= 1

\* C1: in a run of main with an empty GitHub PAT, or in which no Fabric token
\* was obtained (none supplied and the acquisition gave none), the run ends
\* with a ValueError and no provisioning request is ever issued.
C1_AbortBeforeProvisioning ==
    LET noPat == Falsy(GH_PAT_TOKEN)
        noToken == pc \notin {"main", "auth"} /\ Falsy(token)
    IN InMain =>
         /\ noPat => pc \in {"main", "raised"}
         /\ noToken => pc = "raised"
         /\ (noPat \/ noToken) =>
               /\ NoRequests(ProvisioningKinds)
               /\ pc = "raised" => exc.type = "ValueError"

C1_Witness ==
    /\ InMain /\ pc = "raised" /\ ~Falsy(GH_PAT_TOKEN)
    /\ Falsy(FABRIC_TOKEN) /\ Falsy(token) /\ reqs["acquire_token"] = 1

AfterWorkspace ==
    {"add_admin", "branch_lookup", "base_lookup", "create_ref", "list_connections",
     "create_connection", "git_connect", "initialize_connection", "update_from_git",
     "status_poll"}

\* C2: when the create-workspace request is answered 409, the run ends with
\* the distinct "already exists" error (not the "could not create" one), no
\* later request is issued, and the provider holds exactly one workspace of
\* the name.
C2_ConflictIsFatal ==
    (InMain /\ resp["create_workspace"] = 409) =>
        /\ pc = "raised"
        /\ exc = Exc("ValueError", "Fabric workspace already exists")
        /\ Falsy(workspace_id)
        /\ NoRequests(AfterWorkspace)
        /\ wsCount = 1

\* the second run of main meets the workspace the first run created
C2_Witness ==
    /\ InMain /\ calls = 2 /\ prev.pc = "done"
    /\ resp["create_workspace"] = 409 /\ pc = "raised" /\ wsCount = 1

OneBranch ==
    \/ newSha = "sha0" /\ refsCreated = 0
    \/ newSha = "sha1" /\ refsCreated = 1

SecondBranchCall ==
    entry = "create_github_branch" /\ calls >= 2 /\ prev.pc = "done"

\* C3 as stated: after a call of create_github_branch that returned, a
\* further call is a no-op (no create-reference request, no error) whatever
\* its existence lookup is answered, and there is exactly one branch.
C3_Original ==
    SecondBranchCall => OneBranch /\ reqs["create_ref"] = 0 /\ pc # "raised"

\* C3 amended: after a call of create_github_branch that returned, there is
\* exactly one branch whatever a further call does; the further call is a
\* no-op that returns (no base lookup, no create-reference request) when its
\* existence lookup is answered 200, and ends with an error, creating
\* nothing, when the lookup fails or is answered another status.
C3_IdempotentWhenLookupSucceeds ==
    SecondBranchCall =>
        /\ OneBranch
        /\ resp["branch_lookup"] # 404
        /\ resp["branch_lookup"] = 200 =>
              pc = "done" /\ reqs["base_lookup"] = 0 /\ reqs["create_ref"] = 0
        /\ resp["branch_lookup"] \notin {NotIssued, 200} =>
              pc # "done" /\ resp["create_ref"] # 201

C3_Witness ==
    /\ SecondBranchCall /\ refsCreated = 1 /\ pc = "done"
    /\ resp["branch_lookup"] = 200

NameCount(conns, name) == Cardinality({i \in 1..Len(conns) : conns[i].displayName = name})

SecondResolverCall ==
    /\ entry = "get_or_create_github_pat_connection" /\ calls >= 2
    /\ prev.pc = "done" /\ prev.ret # None /\ pc = "done"

C5_PollerCounts ==
    LET n == Len(polled)
    IN /\ reqs["status_poll"] = n
       /\ n > 0 => pc \in {"poll", "done"}
       /\ pc = "poll" => sleeps = n /\ \A i \in 1..n : polled[i] \in InProgress
       /\ (n > 0 /\ pc = "done") =>
             /\ \A i \in 1..(n - 1) : polled[i] \in InProgress
             /\ polled[n] \notin InProgress
             /\ sleeps = n - 1
             /\ polled[n] = "Failed" => "operation failed. Error response" \in logged
             /\ entry = "long_running_operation_polling" =>
                   ret = IF polled[n] \in Statuses \ {"Failed"} THEN polled[n] ELSE None

C5_Witness ==
    /\ entry = "long_running_operation_polling" /\ pc = "done"
    /\ polled = <<"Running", "Running", "Succeeded">>
    /\ reqs["status_poll"] = 3 /\ sleeps = 2 /\ ret = "Succeeded"

\* the log line and status by which connect_branch_to_workspace itself
\* calls the connect request failed
ConnectFailed == resp["git_connect"] \notin {NotIssued, 200}

\* C6: once a fatal condition has occurred in a run of main (workspace
\* conflict, workspace not created, base branch not found, branch creation
\* failed, no connection acquired, git connect failed) the run has raised and
\* no request of a later step is issued.
C6_FatalAborts ==
    InMain =>
      /\ (resp["create_workspace"] # NotIssued /\ Falsy(workspace_id)) =>
            pc = "raised" /\ NoRequests(AfterWorkspace)
      /\ resp["base_lookup"] \notin {NotIssued, 200} =>
            pc = "raised" /\ NoRequests(AfterWorkspace \ {"add_admin", "branch_lookup", "base_lookup"})
      /\ resp["create_ref"] \notin {NotIssued, 201} =>
            pc = "raised" /\ NoRequests({"list_connections", "create_connection", "git_connect",
                                          "initialize_connection", "update_from_git", "status_poll"})
      /\ (resp["list_connections"] # NotIssued /\ pc \notin {"list_connections", "create_connection"}
            /\ Falsy(connection_id)) =>
            pc = "raised" /\ NoRequests({"git_connect", "initialize_connection",
                                          "update_from_git", "status_poll"})
      /\ ConnectFailed =>
            pc = "raised" /\ NoRequests({"initialize_connection", "update_from_git", "status_poll"})

\* C7: whenever the connect request is answered with a status other than
\* 200, connect_branch_to_workspace raises and initialize_workspace_from_git
\* is never called in that run.
C7_ConnectNon200Fatal ==
    (InMain /\ resp["git_connect"] # NotIssued /\ resp["git_connect"] # 200) =>
        /\ pc = "raised"
        /\ reqs["initialize_connection"] = 0

\* C8: whatever the add-admin request is answered, add_workspace_admins
\* returns and the run goes on to branch creation: after a workspace was
\* created the run never ends before the branch lookup is issued.
C8_AdminBestEffort ==
    (InMain /\ ~Falsy(workspace_id)) =>
        \/ pc \in {"add_admin", "create_github_branch", "branch_lookup"}
        \/ reqs["add_admin"] = 1 /\ reqs["branch_lookup"] = 1

C8_Witness ==
    /\ InMain /\ resp["add_admin"] \in {ERR, 401, 500} /\ reqs["branch_lookup"] = 1
    /\ ~wsAdmin

C10_Original == InMain => exc.type \notin TransportExceptions

\* C10 amended: a transport failure of the create-reference request or of the
\* git-connect request is logged and re-raised, and reaches main as the
\* transport exception itself; a transport failure of any other request
\* (create workspace, add admin, branch lookups, connection list and
\* creation, initialize, update, status poll) never does.
C10_TransportFailures ==
    InMain =>
      /\ exc.type \in TransportExceptions <=>
            (resp["create_ref"] = ERR \/ resp["git_connect"] = ERR)
      /\ exc.type \in TransportExceptions => pc = "raised"

C10_Witness ==
    /\ InMain /\ pc = "raised" /\ exc.type = "ConnectionError"
    /\ resp["git_connect"] = ERR /\ resp["add_admin"] = ERR
    /\ resp["branch_lookup"] = ERR /\ resp["list_connections"] = ERR

Last(q) == q[Len(q)]
Ended == {"idle", "done", "raised"}

\* C11: the poller goes on exactly while the answers are NotStarted or
\* Running: it leaves the loop only on an answer outside that set or a failed
\* fetch, after which no further fetch is issued, and as long as every answer
\* is NotStarted or Running it is still polling, however many answers there
\* were.  Every step of the run other than the polling loop ends: from any
\* position the run ends or reaches the polling loop.
C11_PollerStopsOnlyOnAnswer ==
    /\ []((polled # <<>> /\ \A i \in 1..Len(polled) : polled[i] \in InProgress)
            => (pc = "poll" /\ keep_polling))
    /\ []((polled # <<>> /\ Last(polled) \notin InProgress) => pc # "poll")
    /\ [][(pc = "poll" /\ pc' # "poll") =>
            \/ location_url = None /\ reqs' = reqs
            \/ /\ reqs'["status_poll"] = reqs["status_poll"] + 1
               /\ Last(polled') \notin InProgress]_vars
    /\ [][(pc = "poll" /\ reqs'["status_poll"] # reqs["status_poll"]
             /\ Last(polled') \in InProgress) => pc' = "poll"]_vars
    /\ (pc \notin Ended) ~> (pc \in Ended \/ pc = "poll")

\* the loop is still running after MaxPolls answers, none of them terminal
C11_Witness ==
    /\ pc = "poll" /\ Len(polled) = MaxPolls /\ sleeps = MaxPolls
    /\ \A i \in 1..Len(polled) : polled[i] \in InProgress

\* the answers by which each request succeeds
SuccessAnswers ==
    [k \in RequestKinds |->
        CASE k = "create_workspace" -> {201}
          [] k = "add_admin" -> {200}
          [] k = "branch_lookup" -> {404}
          [] k = "base_lookup" -> {200}
          [] k = "create_ref" -> {201}
          [] k = "list_connections" -> {200}
          [] k = "create_connection" -> {201}
          [] k = "git_connect" -> {200}
          [] k = "initialize_connection" -> {200, 202}
          [] k = "update_from_git" -> {200, 202}
          [] OTHER -> {200}]

\* a finished run of main in which the workspace and the new branch did not
\* exist, the main branch did, and every request issued succeeded
AllSucceeded ==
    /\ InMain /\ pc \in {"done", "raised"}
    /\ ~Falsy(GH_PAT_TOKEN) /\ ~Falsy(token)
    /\ \A k \in RequestKinds : resp[k] \in SuccessAnswers[k] \cup {NotIssued}
    /\ resp["create_workspace"] = 201 => ~Falsy(workspace_id)
    /\ resp["update_from_git"] = 202 => location_url # None
    /\ \A i \in 1..Len(polled) : polled[i] \in Statuses \ {"Failed"}

\* C12: such a run ends without error after exactly one create-workspace
\* request (one workspace), one add-admin request, one create-reference
\* request (one branch, at the head commit of the main branch), one
\* connection resolved (found in the list, or created by one request), one
\* git connect answered 200, and with the sync accepted, started or completed.
C12_EndToEnd ==
    AllSucceeded =>
        /\ pc = "done" /\ exc = NoExc
        /\ reqs["create_workspace"] = 1 /\ wsCount = 1
        /\ reqs["add_admin"] = 1 /\ wsAdmin
        /\ reqs["branch_lookup"] = 1 /\ reqs["base_lookup"] = 1
        /\ reqs["create_ref"] = 1 /\ refsCreated = 1
        /\ mainSha # "" /\ newSha = mainSha
        /\ reqs["list_connections"] = 1 /\ reqs["create_connection"] <= 1
        /\ ~Falsy(connection_id)
        /\ \E i \in 1..Len(provConns) :
              provConns[i] = [displayName |-> ConnName, id |-> connection_id]
        /\ reqs["create_connection"] = 1 <=> FindConnection(connections, ConnName) = None
        /\ reqs["git_connect"] = 1 /\ wsGit = "connected"
        /\ reqs["initialize_connection"] = 1 /\ reqs["update_from_git"] <= 1
        /\ \/ resp["initialize_connection"] = 202 /\ reqs["update_from_git"] = 0
           \/ resp["update_from_git"] = 200 /\ polled = <<>>
           \/ /\ resp["update_from_git"] = 202 /\ polled # <<>>
              /\ operation_state \in Statuses \ (InProgress \cup {"Failed"})

C12_Witness ==
    /\ AllSucceeded /\ pc = "done" /\ reqs["create_connection"] = 1
    /\ polled = <<"Running", "Succeeded">> /\ operation_state = "Succeeded"
    /\ newSha = "sha1" /\ wsCount = 1

\* C13: the folders "/", "\" and "" give the empty directory name; every
\* other folder is sent without its trailing "/" characters and otherwise
\* unchanged: the directory name is the part of the folder before its
\* trailing run of "/" ("a/b/" gives "a/b", "a/b" stays "a/b").
C13_FolderNormalization ==
    directory_name # Unset =>
        LET f == GH_GIT_FOLDER
            d == directory_name
        IN /\ f \in {<<>>, <<"/">>, <<"\\">>} => d = <<>>
           /\ f \notin {<<>>, <<"/">>, <<"\\">>} =>
                 /\ Len(d) <= Len(f)
                 /\ d = SubSeq(f, 1, Len(d))
                 /\ \A i \in (Len(d) + 1)..Len(f) : f[i] = "/"
                 /\ d = <<>> \/ d[Len(d)] # "/"
           /\ f = <<"a", "/", "b", "/">> => d = <<"a", "/", "b">>
           /\ f = <<"a", "/", "b">> => d = f

C13_Witness ==
    /\ GH_GIT_FOLDER = <<"a", "/", "b", "/">> /\ directory_name = <<"a", "/", "b">>
    /\ pc = "get_or_create_github_pat_connection"

\* positions of the entries of conns with the display name and an id
Usable(conns, name) ==
    {i \in 1..Len(conns) : conns[i].displayName = name /\ ~Falsy(conns[i].id)}
Min(S) == CHOOSE i \in S : \A j \in S : i <= j

\* the resolver has listed the connections in this invocation and the
\* provider's list came back in an accepted shape
AfterListing == Listed(resp, data) /\ pc # "list_connections"

\* what the resolver did after the listing is what the list l demands: the id
\* of the first usable entry and no create request, or a create request
DecidedOn(l) ==
    IF Usable(l, ConnName) # {}
    THEN connection_id = l[Min(Usable(l, ConnName))].id /\ reqs["create_connection"] = 0
    ELSE pc = "create_connection" \/ reqs["create_connection"] = 1

\* C14: when the listing is answered 200 with the provider's list L, bare or
\* wrapped under "value", the resolver works on L itself and its result (the
\* id it reuses, or the decision to create) depends on L alone, not on the
\* shape.
C14_ShapeTolerance ==
    AfterListing =>
        /\ Len(connections) <= Len(provConns)
        /\ connections = SubSeq(provConns, 1, Len(connections))
        /\ Len(provConns) - Len(connections) =
              (IF resp["create_connection"] = 201 THEN 1 ELSE 0)
        /\ DecidedOn(connections)

C14_Witness ==
    /\ AfterListing /\ data = "value" /\ connections # <<>>
    /\ connection_id = connections[1].id /\ reqs["create_connection"] = 0
    /\ entry = "main" /\ pc = "git_connect"

InPollingLoop == pc \in {"long_running_operation_polling", "poll"}

\* C15: in a run of main, update-from-git is requested only after
\* initialize-connection answered 200 and at most once; after any other answer
\* of initialize-connection the run issues no update-from-git and no status
\* poll; the polling loop is entered only after update-from-git answered 202;
\* after any other answer of update-from-git no status poll is issued.
C15_InitializerTransitions ==
    /\ [](InMain =>
            /\ reqs["update_from_git"] <= 1
            /\ (pc = "update_from_git" \/ reqs["update_from_git"] >= 1)
                  => resp["initialize_connection"] = 200
            /\ resp["initialize_connection"] \notin {NotIssued, 200}
                  => /\ NoRequests({"update_from_git", "status_poll"})
                     /\ pc \in {"done", "raised"}
            /\ (InPollingLoop \/ polled # <<>> \/ reqs["status_poll"] >= 1)
                  => resp["update_from_git"] = 202
            /\ resp["update_from_git"] \notin {NotIssued, 202}
                  => /\ NoRequests({"status_poll"})
                     /\ pc \in {"done", "raised"})
    /\ [][InMain =>
            /\ reqs'["update_from_git"] > reqs["update_from_git"]
                  => pc = "update_from_git" /\ resp["initialize_connection"] = 200
            /\ (~InPollingLoop /\ InPollingLoop')
                  => pc = "update_from_git" /\ resp'["update_from_git"] = 202]_vars

C15_Witness ==
    /\ InMain /\ pc = "done"
    /\ resp["initialize_connection"] = 200 /\ resp["update_from_git"] = 202
    /\ reqs["update_from_git"] = 1 /\ reqs["status_poll"] >= 2

\* create_github_branch has been invoked, by main or on its own
InBranch == entry \in {"main", "create_github_branch"} /\ calls >= 1

\* C16: create_github_branch stops at the first step that decides: a branch
\* found to exist means no base lookup, no create-reference request and an
\* unchanged repository; an unresolved base commit means a ValueError and no
\* create-reference request; otherwise exactly one create-reference request
\* points the new branch at the resolved base commit, and its failure is raised.
C16_BranchStepsInOrder ==
    /\ [](InBranch =>
            /\ reqs["branch_lookup"] <= 1 /\ reqs["base_lookup"] <= 1 /\ reqs["create_ref"] <= 1
            /\ reqs["base_lookup"] >= 1 => resp["branch_lookup"] \notin {NotIssued, 200}
            /\ reqs["create_ref"] >= 1 => resp["base_lookup"] = 200
            /\ resp["branch_lookup"] = 200 => NoRequests({"base_lookup", "create_ref"})
            /\ resp["base_lookup"] \notin {NotIssued, 200}
                  => /\ pc = "raised"
                     /\ exc = Exc("ValueError", "Could not find base branch")
                     /\ NoRequests({"create_ref"})
            /\ resp["base_lookup"] = 200
                  => /\ pc = "create_ref" \/ reqs["create_ref"] = 1
                     /\ base_sha = mainSha /\ ~Falsy(base_sha)
            /\ resp["create_ref"] = 201
                  => /\ newSha = base_sha
                     /\ entry = "create_github_branch" => pc = "done"
            /\ resp["create_ref"] \notin {NotIssued, 201}
                  => pc = "raised" /\ exc.type \in {"HTTPError", "ConnectionError"})
    /\ [][(InBranch /\ resp'["branch_lookup"] = 200)
            => <<mainSha, newSha, refsCreated>>' = <<mainSha, newSha, refsCreated>>]_vars

C16_Witness ==
    /\ InBranch
    /\ resp["branch_lookup"] = 404 /\ resp["base_lookup"] = 200 /\ resp["create_ref"] = 201
    /\ newSha = "sha1" /\ refsCreated = 1

SkipLine == "already exists, skipping creation"

\* C17: the existence lookup never raises; create_github_branch takes the
\* branch to exist exactly when the lookup was answered 200 (it then logs the
\* skip and looks up nothing else), and after a transport failure or any other
\* status it goes on to the base-branch lookup that starts the creation.
C17_BranchExists ==
    /\ [](InBranch =>
            /\ resp["branch_lookup"] = 200
                  => SkipLine \in logged /\ NoRequests({"base_lookup", "create_ref"})
            /\ resp["branch_lookup"] \notin {NotIssued, 200}
                  => /\ SkipLine \notin logged
                     /\ pc = "base_lookup" \/ reqs["base_lookup"] = 1)
    /\ [][(pc = "branch_lookup" /\ pc' # "branch_lookup")
            => /\ pc' # "raised" /\ exc' = NoExc
               /\ resp'["branch_lookup"] # 200 => pc' = "base_lookup"]_vars

C17_Witness ==
    /\ InBranch /\ resp["branch_lookup"] = ERR /\ newSha # ""
    /\ resp["base_lookup"] = 200 /\ reqs["create_ref"] = 1

\* positions of the entries of conns with the display name, id or not
Matching(conns, name) == {i \in 1..Len(conns) : conns[i].displayName = name}

\* C18 as stated: whenever the listing holds an entry with the requested
\* display name, the resolver returns the id of the first such entry and
\* issues no create-connection request.
C18_Original ==
    (AfterListing /\ Matching(connections, ConnName) # {}) =>
        /\ connection_id = connections[Min(Matching(connections, ConnName))].id
        /\ reqs["create_connection"] = 0

\* C18, amended: the first entry whose display name equals the requested name
\* and whose id is not empty wins: its id is returned and no create-connection
\* request is issued; entries of another name, and entries of that name
\* without an id, are passed over, and with no entry left the resolver goes on
\* to create the connection.
C18_FirstUsableMatchWins ==
    AfterListing =>
        LET u == Usable(connections, ConnName)
        IN /\ u # {} =>
                /\ connection_id = connections[Min(u)].id
                /\ reqs["create_connection"] = 0
                /\ entry = "get_or_create_github_pat_connection"
                      => pc = "done" /\ ret = connections[Min(u)].id
           /\ u = {} =>
                /\ pc = "create_connection" \/ reqs["create_connection"] = 1
                /\ reqs["create_connection"] = 0 => connection_id = None

C18_Witness ==
    /\ AfterListing /\ entry = "get_or_create_github_pat_connection"
    /\ Len(connections) = 2
    /\ Usable(connections, ConnName) = {1, 2}
    /\ connections[1].id # connections[2].id
    /\ ret = connections[1].id /\ reqs["create_connection"] = 0

\* the requests a run of main issues once at most
SingleShotKinds == RequestKinds \ {"status_poll"}

\* C19: in a run of main every request other than the status fetch of the
\* long-running operation is issued at most once, whatever the answers; a
\* step issues one request, and only the status fetch is ever issued again.
C19_NoRetry ==
    /\ [](InMain => \A k \in SingleShotKinds : reqs[k] <= 1)
    /\ [][(InMain /\ pc # "idle" /\ pc' # EntryPc) =>
            \A k \in RequestKinds :
                reqs'[k] > reqs[k] =>
                    /\ reqs'[k] = reqs[k] + 1
                    /\ reqs[k] >= 1 => k = "status_poll"]_vars

C19_Witness ==
    /\ InMain /\ reqs["status_poll"] >= 2
    /\ resp["add_admin"] = 500 /\ resp["branch_lookup"] = ERR
    /\ \A k \in SingleShotKinds \ {"create_ref", "create_connection"} : reqs[k] = 1

\* C20: when a run of main issues the git-connect request, the run has seen
\* the branch exist: its existence lookup was answered 200 or its
\* create-reference request was answered 201 earlier in the run; the
\* repository, which nothing else changes, holds the branch.
C20_BranchSeenBeforeConnect ==
    (InMain /\ (pc = "git_connect" \/ reqs["git_connect"] >= 1)) =>
        /\ resp["branch_lookup"] = 200 \/ resp["create_ref"] = 201
        /\ newSha # ""

C20_Witness ==
    /\ InMain /\ reqs["git_connect"] = 1
    /\ resp["branch_lookup"] = 404 /\ resp["create_ref"] = 201 /\ newSha = mainSha

\* the exceptions with which a run of main aborts at branch creation, at the
\* acquisition of the connection or at the git connect
LateAborts ==
    {Exc("ValueError", "Could not find base branch"),
     Exc("HTTPError", "create ref"),
     Exc("ConnectionError", "transport"),
     Exc("ValueError", "Could not obtain/create GitHub credentials connection"),
     Exc("HTTPError", "git connect")}

Conflict == Exc("ValueError", "Fabric workspace already exists")

\* main is run again, unchanged, after a run that aborted at one of those steps
RerunAfterLateAbort ==
    InMain /\ calls >= 2 /\ prev.pc = "raised" /\ prev.exc \in LateAborts

\* C21 as stated: the re-run of a run that aborted at branch creation,
\* connection acquisition or git connect aborts with the
\* workspace-already-exists conflict before any later request.
C21_Original ==
    (RerunAfterLateAbort /\ pc \in {"done", "raised"}) =>
        /\ pc = "raised" /\ exc = Conflict
        /\ NoRequests(AfterWorkspace)

\* C21, amended: nothing is rolled back: the provider never loses a workspace,
\* and a run that aborts at branch creation, connection acquisition or git
\* connect leaves the workspace it created; the re-run never gets past the
\* create-workspace request, so it issues no add-admin, branch, connection or
\* connect request and never completes; it aborts with the
\* workspace-already-exists conflict whenever its create-workspace request is
\* answered by the provider with other than a server or transport failure.
C21_NoRollback ==
    /\ [][wsCount' >= wsCount]_vars
    /\ []((InMain /\ pc = "raised" /\ exc \in LateAborts)
            => wsCount = 1 /\ ~Falsy(workspace_id))
    /\ [](RerunAfterLateAbort =>
            /\ wsCount = 1
            /\ pc \in {"main", "auth", "create_workspace", "raised"}
            /\ NoRequests(AfterWorkspace)
            /\ resp["create_workspace"] # 201
            /\ resp["create_workspace"] \notin {NotIssued, 500, ERR}
                  => /\ resp["create_workspace"] = 409
                     /\ pc = "raised" /\ exc = Conflict)

C21_Witness ==
    /\ RerunAfterLateAbort
    /\ prev.exc = Exc("ValueError", "Could not obtain/create GitHub credentials connection")
    /\ resp["create_workspace"] = 409 /\ pc = "raised" /\ exc = Conflict
    /\ wsCount = 1 /\ newSha = "sha1"

====
